---- MODULE Spec2Model ----
(***************************************************************************)
(* Model of td/utils/port/IPAddress.cpp (non-Windows build):               *)
(*   - idn_to_ascii and the punycode label encoder,                        *)
(*   - the IPAddress value type, its initializers, set_port,               *)
(*     operator== and operator<,                                           *)
(*   - init_host_port and its candidate selection.                         *)
(* Text is modelled as sequences of byte values (0..255).                  *)
(***************************************************************************)
EXTENDS Integers, Sequences, FiniteSets, TLC

VARIABLES
  host,      \* idn_to_ascii: the argument (bytes)
  ipc,       \* idn_to_ascii: position ("idle", "start", "part", "loop", "done")
  parts,     \* idn_to_ascii: full_split(host, '.')
  pidx,      \* idn_to_ascii: index of the part being processed
  result,    \* idn_to_ascii: the string being built
  status,    \* idn_to_ascii: returned status once ipc = "done"
  puny,      \* punycode: its locals (codes, processed, n, delta, bias, is_first)
  addr,      \* the IPAddress objects, by slot
  aborted,   \* a CHECK or LOG(FATAL) has ended the process
  last       \* the last call on an IPAddress: its arguments and its Status

idnVars == <<host, ipc, parts, pidx, result, status, puny>>

addrVars == <<addr, aborted, last>>

vars == <<idnVars, addrVars>>

(***************************************************************************)
(* Bounds of the model.                                                    *)
(***************************************************************************)
MaxHostLen == 4

(***************************************************************************)
(* Character codes.                                                        *)
(***************************************************************************)
CH_DOT == 46
CH_MINUS == 45
CH_a == 97
CH_0 == 48
XN_PREFIX == <<120, 110, 45, 45>>      \* "xn--"

(***************************************************************************)
(* Helpers of td/utils (misc.h, utf8.h).                                   *)
(***************************************************************************)
to_lower_char(c) == IF c >= 65 /\ c <= 90 THEN c + 32 ELSE c

to_lower(s) == [i \in 1..Len(s) |-> to_lower_char(s[i])]

clamp(v, lo, hi) == IF v < lo THEN lo ELSE IF v > hi THEN hi ELSE v

IsCont(b) == b >= 128 /\ b < 192       \* (b & 0xc0) == 0x80

\* check_utf8: every byte that is not a continuation byte starts a well-formed
\* sequence (lead byte, the right number of continuation bytes, no overlong
\* form, no surrogate, no value >= 0x110000), and the byte after a sequence
\* starts the next one.  Stated per position, so that hosts of any length are
\* checked without nesting.
utf8_seq_len(a) ==
  IF a < 128 THEN 1 ELSE IF a < 224 THEN 2 ELSE IF a < 240 THEN 3 ELSE 4

utf8_seq_ok(s, i) ==
  LET a == s[i]
      n == utf8_seq_len(a) IN
    /\ a < 248
    /\ i + n - 1 <= Len(s)
    /\ \A j \in (i + 1)..(i + n - 1) : IsCont(s[j])
    /\ (i + n <= Len(s)) => ~IsCont(s[i + n])
    /\ (n = 2) => (a % 32) \div 2 > 0
    /\ (n = 3) =>
         LET x == (a % 16) * 64 + ((s[i + 1] \div 32) % 2) * 32 IN
           x # 0 /\ x # 864
    /\ (n = 4) =>
         LET t == (a % 8) * 64 + ((s[i + 1] \div 16) % 4) * 16 IN
           0 < t /\ t < 272

check_utf8(s) ==
  /\ Len(s) > 0 => ~IsCont(s[1])
  /\ \A i \in 1..Len(s) : ~IsCont(s[i]) => utf8_seq_ok(s, i)

\* next_utf8_unsafe: the code point starting at s[i] and the index after it.
next_utf8_unsafe(s, i) ==
  LET a == s[i] IN
    IF a < 128 THEN [code |-> a, next |-> i + 1]
    ELSE IF a < 224 THEN
      [code |-> (a % 32) * 64 + (s[i + 1] % 64), next |-> i + 2]
    ELSE IF a < 240 THEN
      [code |-> (a % 16) * 4096 + (s[i + 1] % 64) * 64 + (s[i + 2] % 64),
       next |-> i + 3]
    ELSE
      [code |-> (a % 8) * 262144 + (s[i + 1] % 64) * 4096
                + (s[i + 2] % 64) * 64 + (s[i + 3] % 64),
       next |-> i + 4]

\* full_split(s, '.'): the '.'-delimited parts of s, in order.
RECURSIVE full_split_from(_, _)
full_split_from(s, i) ==
  LET dots == {j \in i..Len(s) : s[j] = CH_DOT} IN
    IF dots = {} THEN <<SubSeq(s, i, Len(s))>>
    ELSE LET d == CHOOSE j \in dots : \A k \in dots : j <= k IN
      <<SubSeq(s, i, d - 1)>> \o full_split_from(s, d + 1)

full_split(s) == full_split_from(s, 1)

(***************************************************************************)
(* is_ascii_host_char, is_ascii_host.                                      *)
(***************************************************************************)
is_ascii_host_char(c) == c <= 127

is_ascii_host(h) == \A i \in 1..Len(h) : is_ascii_host_char(h[i])

(***************************************************************************)
(* punycode(result, part).                                                 *)
(* uint32 delta cannot wrap: a part is shorter than 1020 bytes and every   *)
(* code point is below 0x110000, so delta stays below 2^31.                *)
(***************************************************************************)
UNICODE_LIMIT == 1114112               \* 0x110000

\* Lines 46-63: decode the part, emit its basic code points lowercased,
\* count them, and append '-' when there is at least one.
RECURSIVE punycode_decode(_, _, _)
punycode_decode(part, i, st) ==
  IF i > Len(part) THEN st
  ELSE LET d == next_utf8_unsafe(part, i) IN
    punycode_decode(part, d.next,
      [result    |-> IF d.code <= 127
                       THEN Append(st.result, to_lower_char(d.code))
                       ELSE st.result,
       processed |-> IF d.code <= 127 THEN st.processed + 1 ELSE st.processed,
       codes     |-> Append(st.codes, d.code)])

punycode_prologue(res, part) ==
  LET st == punycode_decode(part, 1,
              [result |-> res, processed |-> 0, codes |-> <<>>]) IN
    [result    |-> IF st.processed > 0 THEN Append(st.result, CH_MINUS)
                                       ELSE st.result,
     codes     |-> st.codes,
     processed |-> st.processed,
     n         |-> 127,
     delta     |-> 0,
     bias      |-> -72,
     is_first  |-> TRUE]

\* Mutant of choose_next_n: the test code > n is dropped.
RECURSIVE choose_next_n_no_floor(_, _, _, _)
choose_next_n_no_floor(codes, i, n, next_n) ==
  IF i > Len(codes) THEN next_n
  ELSE choose_next_n_no_floor(codes, i + 1, n,
         IF codes[i] < next_n THEN codes[i] ELSE next_n)

\* Lines 71-76: the lowest code above n, or 0x110000 when there is none.
RECURSIVE choose_next_n(_, _, _, _)
choose_next_n(codes, i, n, next_n) ==
  IF i > Len(codes) THEN next_n
  ELSE choose_next_n(codes, i + 1, n,
         IF codes[i] > n /\ codes[i] < next_n THEN codes[i] ELSE next_n)

\* Lines 86-99: emit left as a variable-length integer.
digit_char(digit) == IF digit < 26 THEN digit + CH_a ELSE digit - 26 + CH_0

RECURSIVE encode_delta(_, _, _)
encode_delta(res, bias, left) ==
  LET b == bias + 36
      t == clamp(b, 1, 26) IN
    IF left < t THEN [result |-> Append(res, left + CH_a), bias |-> b]
    ELSE LET l == left - t
             digit == t + (l % (36 - t)) IN
      encode_delta(Append(res, digit_char(digit)), b, l \div (36 - t))

\* Lines 103-116: the new bias after a symbol has been emitted.
RECURSIVE adapt_loop(_, _)
adapt_loop(delta, bias) ==
  IF delta > 35 * 13 THEN adapt_loop(delta \div 35, bias - 36)
  ELSE bias - ((36 * delta) \div (delta + 38))

\* Mutant of update_bias: the first adaptation divides by 2, not by 700.
update_bias_no_damp(delta, is_first, processed) ==
  LET d1 == delta \div 2
      d2 == d1 + d1 \div processed IN
    adapt_loop(d2, 0)

update_bias(delta, is_first, processed) ==
  LET d1 == IF is_first THEN delta \div 700 ELSE delta \div 2
      d2 == d1 + d1 \div processed IN
    adapt_loop(d2, 0)

\* Lines 80-118: the body of the scan for the code at index i.
punycode_scan_code(st, i, next_n) ==
  LET code == st.codes[i]
      d == IF code < next_n THEN st.delta + 1 ELSE st.delta IN
    IF code = next_n THEN
      LET e == encode_delta(st.result, st.bias, d)
          p == st.processed + 1 IN
        [st EXCEPT !.result = e.result,
                   !.processed = p,
                   !.bias = update_bias(d, st.is_first, p),
                   !.is_first = FALSE,
                   !.delta = 0]
    ELSE [st EXCEPT !.delta = d]

\* Lines 79-119: the scan of all codes for one next_n.  (The locals after one
\* code are bound as a value, s, before the scan goes on.)
RECURSIVE punycode_scan(_, _, _)
punycode_scan(st, i, next_n) ==
  IF i > Len(st.codes) THEN st
  ELSE CHOOSE r \in {punycode_scan(s, i + 1, next_n) :
                       s \in {punycode_scan_code(st, i, next_n)}} : TRUE

\* Lines 70-122: one iteration of the while loop.
punycode_iter(st) ==
  LET next_n == choose_next_n(st.codes, 1, st.n, UNICODE_LIMIT)
      s0 == [st EXCEPT !.delta = st.delta
                         + (next_n - st.n - 1) * (st.processed + 1)] IN
    CHOOSE r \in {[s1 EXCEPT !.delta = s1.delta + 1, !.n = next_n] :
                    s1 \in {punycode_scan(s0, 1, next_n)}} : TRUE

\* Lines 45-124: the whole function; the text appended to res.
RECURSIVE punycode_loop(_)
punycode_loop(st) ==
  IF st.processed < Len(st.codes) THEN punycode_loop(punycode_iter(st))
  ELSE st.result

punycode(res, part) == punycode_loop(punycode_prologue(res, part))

(***************************************************************************)
(* idn_to_ascii(host).                                                     *)
(***************************************************************************)
MAX_DNS_NAME_LENGTH == 255

\* Mutant of idn_precheck: the length is tested before anything else.
idn_precheck_length_first(h) ==
  IF Len(h) >= MAX_DNS_NAME_LENGTH * 4 THEN "HostnameTooLong"
  ELSE IF is_ascii_host(h) THEN "ascii"
  ELSE IF ~check_utf8(h) THEN "InvalidEncoding"
  ELSE "encode"

\* Lines 128-138: what idn_to_ascii decides before it splits the host.
idn_precheck(h) ==
  IF is_ascii_host(h) THEN "ascii"
  ELSE IF ~check_utf8(h) THEN "InvalidEncoding"
  ELSE IF Len(h) >= MAX_DNS_NAME_LENGTH * 4 THEN "HostnameTooLong"
  ELSE "encode"

\* Lines 156-167: the body of the loop over the parts, up to the call of
\* punycode.
idn_part_begin(res, ps, i) ==
  LET r0 == IF i > 1 THEN Append(res, CH_DOT) ELSE res IN
    IF is_ascii_host(ps[i]) THEN [ascii |-> TRUE, result |-> r0 \o ps[i]]
    ELSE [ascii |-> FALSE, result |-> r0 \o XN_PREFIX]

RECURSIVE idn_join(_, _, _)
idn_join(ps, i, res) ==
  IF i > Len(ps) THEN res
  ELSE LET b == idn_part_begin(res, ps, i) IN
    idn_join(ps, i + 1,
             IF b.ascii THEN b.result ELSE punycode(b.result, ps[i]))

\* Lines 127-171: the whole function, as its callers see it.
idn_to_ascii(h) ==
  LET c == idn_precheck(h) IN
    IF c = "ascii" THEN [status |-> "OK", value |-> to_lower(h)]
    ELSE IF c = "encode"
      THEN [status |-> "OK", value |-> idn_join(full_split(h), 1, <<>>)]
    ELSE [status |-> c, value |-> <<>>]

(***************************************************************************)
(* IPAddress.  The object is is_valid_ and a union of sockaddr_in,         *)
(* sockaddr_in6 and sockaddr_storage.  Its bytes are modelled by region:   *)
(*   sa_family   bytes 0-1    sin_family, sin6_family                      *)
(*   sin_port    bytes 2-3    sin_port, sin6_port, in network byte order   *)
(*   sin_addr    bytes 4-7    sin_addr, which is also sin6_flowinfo        *)
(*   sin6_addr   bytes 8-23   sin6_addr; the first 8 are also sin_zero     *)
(* sin6_scope_id (bytes 24-27) is read by none of the functions modelled.  *)
(***************************************************************************)
AF_INET == 2
AF_INET6 == 10
AF_OTHER == 1
SIZEOF_SOCKADDR_IN == 16
SIZEOF_SOCKADDR_IN6 == 28

ZERO4 == <<0, 0, 0, 0>>                \* INADDR_ANY
ZERO16 == [i \in 1..16 |-> 0]          \* in6addr_any

\* htons(static_cast<uint16>(port)): the two bytes stored, high byte first.
htons(port) ==
  LET u == port % 65536 IN <<u \div 256, u % 256>>

\* ntohs of the stored bytes.
ntohs(bytes) == bytes[1] * 256 + bytes[2]

\* The uint16 the build reads from the stored bytes (a.sin_port as a number).
load_u16(bytes, be) ==
  IF be THEN bytes[1] * 256 + bytes[2] ELSE bytes[2] * 256 + bytes[1]

\* memcmp(x, y, n) over n-byte regions: negative, zero or positive.
memcmp(x, y) ==
  LET diff == {i \in 1..Len(x) : x[i] # y[i]} IN
    IF diff = {} THEN 0
    ELSE LET k == CHOOSE i \in diff : \A j \in diff : i <= j IN
      IF x[k] < y[k] THEN -1 ELSE 1

\* Line 173: the constructor sets is_valid_ only; mem is what the bytes of
\* the union happen to hold.
IPAddress_new(mem) == [mem EXCEPT !.is_valid_ = FALSE]

\* memset(&ipv4_addr_, 0, sizeof(ipv4_addr_)): bytes 0-15.
memset_ipv4(a) ==
  [a EXCEPT !.sa_family = 0, !.sin_port = <<0, 0>>, !.sin_addr = ZERO4,
            !.sin6_addr = [i \in 1..16 |-> IF i <= 8 THEN 0 ELSE a.sin6_addr[i]]]

\* memset(&ipv6_addr_, 0, sizeof(ipv6_addr_)): bytes 0-27.
memset_ipv6(a) ==
  [a EXCEPT !.sa_family = 0, !.sin_port = <<0, 0>>, !.sin_addr = ZERO4,
            !.sin6_addr = ZERO16]

\* memcpy of a sockaddr_in (16 bytes) or sockaddr_in6 (28 bytes) record d.
memcpy_sockaddr(a, d, n) ==
  IF n = SIZEOF_SOCKADDR_IN6
    THEN [a EXCEPT !.sa_family = d.sa_family, !.sin_port = d.sin_port,
                   !.sin_addr = d.sin_addr, !.sin6_addr = d.sin6_addr]
    ELSE [a EXCEPT !.sa_family = d.sa_family, !.sin_port = d.sin_port,
                   !.sin_addr = d.sin_addr,
                   !.sin6_addr = [i \in 1..16 |-> IF i <= 8 THEN d.sin6_addr[i]
                                                           ELSE a.sin6_addr[i]]]

\* Lines 176-178.
is_valid(a) == a.is_valid_

\* Lines 447-461 (for a valid address of a known family).
get_port(a) == IF ~is_valid(a) THEN 0 ELSE ntohs(a.sin_port)

\* The platform's inet_pton: the bytes of a well-formed literal, <<>> for a
\* malformed one.
inet_pton4(text) ==
  IF text = "1.2.3.4" THEN <<1, 2, 3, 4>>
  ELSE IF text = "1.2.3.5" THEN <<1, 2, 3, 5>>
  ELSE IF text = "0.0.0.0" THEN ZERO4
  ELSE <<>>

inet_pton6(text) ==
  IF text = "::1" THEN [i \in 1..16 |-> IF i = 16 THEN 1 ELSE 0]
  ELSE IF text = "::" THEN ZERO16
  ELSE IF \E t \in {"1.2.3.4", "1.2.3.5", "0.0.0.0"} : text = "::FFFF:" \o t
    THEN LET t == CHOOSE u \in {"1.2.3.4", "1.2.3.5", "0.0.0.0"} :
                    text = "::FFFF:" \o u IN
      [i \in 1..16 |-> IF i <= 10 THEN 0
                       ELSE IF i <= 12 THEN 255 ELSE inet_pton4(t)[i - 12]]
  ELSE <<>>

\* What inet_pton(af, text, dst) may return: 1 with the bytes, 0 for a
\* malformed literal, or -1 when the platform does not support af.
inet_pton(af, text) ==
  LET bytes == IF af = AF_INET THEN inet_pton4(text) ELSE inet_pton6(text) IN
    {[err |-> -1, bytes |-> <<>>],
     IF bytes = <<>> THEN [err |-> 0, bytes |-> <<>>]
                     ELSE [err |-> 1, bytes |-> bytes]}

Result(a, st) == [addr |-> a, status |-> st, abort |-> FALSE]

Abort(a) == [addr |-> a, status |-> "abort", abort |-> TRUE]

\* Lines 238-243.
init_ipv4_any(a) ==
  [a EXCEPT !.is_valid_ = TRUE, !.sa_family = AF_INET, !.sin_addr = ZERO4,
            !.sin_port = <<0, 0>>]

\* Lines 245-250.
init_ipv6_any(a) ==
  [a EXCEPT !.is_valid_ = TRUE, !.sa_family = AF_INET6, !.sin6_addr = ZERO16,
            !.sin_port = <<0, 0>>]

\* Lines 223-236: res is a new IPAddress over memory mem.
get_any_addr(a, mem) ==
  IF ~is_valid(a) THEN Abort(IPAddress_new(mem))
  ELSE IF a.sa_family = AF_INET6
    THEN Result(init_ipv6_any(IPAddress_new(mem)), "OK")
  ELSE IF a.sa_family = AF_INET
    THEN Result(init_ipv4_any(IPAddress_new(mem)), "OK")
  ELSE Abort(IPAddress_new(mem))

\* Lines 252-268; pton is what inet_pton returns.
init_ipv6_port(a, ipv6, port, pton) ==
  LET a0 == [a EXCEPT !.is_valid_ = FALSE] IN
    IF port <= 0 \/ port >= 65536 THEN Result(a0, "InvalidPort")
    ELSE
      LET a1 == [memset_ipv6(a0) EXCEPT !.sa_family = AF_INET6,
                                        !.sin_port = htons(port)] IN
        IF pton.err = 0 THEN Result(a1, "InvalidLiteral")
        ELSE IF pton.err = -1 THEN Result(a1, "SystemError")
        ELSE Result([a1 EXCEPT !.sin6_addr = pton.bytes,
                               !.is_valid_ = TRUE], "OK")

\* Lines 270-272: the literal handed to init_ipv6_port.
ipv6_as_ipv4_literal(ipv4) == "::FFFF:" \o ipv4

init_ipv6_as_ipv4_port(a, ipv4, port, pton) ==
  init_ipv6_port(a, ipv6_as_ipv4_literal(ipv4), port, pton)

\* Mutant of init_ipv4_port: is_valid_ is not cleared on entry.
init_ipv4_port_keeps_valid(a, ipv4, port, pton) ==
  IF port <= 0 \/ port >= 65536 THEN Result(a, "InvalidPort")
  ELSE
    LET a1 == [memset_ipv4(a) EXCEPT !.sa_family = AF_INET,
                                     !.sin_port = htons(port)] IN
      IF pton.err = 0 THEN Result(a1, "InvalidLiteral")
      ELSE IF pton.err = -1 THEN Result(a1, "SystemError")
      ELSE Result([a1 EXCEPT !.sin_addr = pton.bytes,
                             !.is_valid_ = TRUE], "OK")

\* Lines 274-290; pton is what inet_pton returns.
init_ipv4_port(a, ipv4, port, pton) ==
  LET a0 == [a EXCEPT !.is_valid_ = FALSE] IN
    IF port <= 0 \/ port >= 65536 THEN Result(a0, "InvalidPort")
    ELSE
      LET a1 == [memset_ipv4(a0) EXCEPT !.sa_family = AF_INET,
                                        !.sin_port = htons(port)] IN
        IF pton.err = 0 THEN Result(a1, "InvalidLiteral")
        ELSE IF pton.err = -1 THEN Result(a1, "SystemError")
        ELSE Result([a1 EXCEPT !.sin_addr = pton.bytes,
                               !.is_valid_ = TRUE], "OK")

\* Mutant of init_sockaddr: the length is not checked.
init_sockaddr_any_length(a, d, len) ==
  IF d.sa_family = AF_INET6 THEN
    Result([memcpy_sockaddr(a, d, SIZEOF_SOCKADDR_IN6)
              EXCEPT !.is_valid_ = TRUE], "OK")
  ELSE IF d.sa_family = AF_INET THEN
    Result([memcpy_sockaddr(a, d, SIZEOF_SOCKADDR_IN)
              EXCEPT !.is_valid_ = TRUE], "OK")
  ELSE Result(a, "UnknownFamily")

\* Lines 359-373; d is the record addr points to, len its stated length.
init_sockaddr(a, d, len) ==
  IF d.sa_family = AF_INET6 THEN
    IF len # SIZEOF_SOCKADDR_IN6 THEN Abort(a)
    ELSE Result([memcpy_sockaddr(a, d, SIZEOF_SOCKADDR_IN6)
                   EXCEPT !.is_valid_ = TRUE], "OK")
  ELSE IF d.sa_family = AF_INET THEN
    IF len # SIZEOF_SOCKADDR_IN THEN Abort(a)
    ELSE Result([memcpy_sockaddr(a, d, SIZEOF_SOCKADDR_IN)
                   EXCEPT !.is_valid_ = TRUE], "OK")
  ELSE Result(a, "UnknownFamily")

\* Lines 375-389 and 391-405: getsockname or getpeername returns ret and, on
\* success, has written the socket's record d.
init_socket_address(a, ret, d) ==
  LET a0 == [a EXCEPT !.is_valid_ = FALSE] IN
    IF ret # 0 THEN Result(a0, "SystemError")
    ELSE Result([memcpy_sockaddr(a0, d,
                   IF d.sa_family = AF_INET6 THEN SIZEOF_SOCKADDR_IN6
                                             ELSE SIZEOF_SOCKADDR_IN)
                   EXCEPT !.is_valid_ = TRUE], "OK")

\* Lines 463-476.
set_port(a, port) ==
  IF ~is_valid(a) THEN Abort(a)
  ELSE IF a.sa_family \in {AF_INET6, AF_INET}
    THEN Result([a EXCEPT !.sin_port = htons(port)], "OK")
  ELSE Abort(a)

\* Mutant of operator==: the ports are not compared.
op_eq_ignores_port(a, b, be) ==
  IF ~is_valid(a) \/ ~is_valid(b)
    THEN [value |-> ~is_valid(a) /\ ~is_valid(b), fatal |-> FALSE]
  ELSE IF a.sa_family # b.sa_family THEN [value |-> FALSE, fatal |-> FALSE]
  ELSE IF a.sa_family = AF_INET THEN
    [value |-> memcmp(a.sin_addr, b.sin_addr) = 0, fatal |-> FALSE]
  ELSE IF a.sa_family = AF_INET6 THEN
    [value |-> memcmp(a.sin6_addr, b.sin6_addr) = 0, fatal |-> FALSE]
  ELSE [value |-> FALSE, fatal |-> TRUE]

\* Lines 478-496: value is what operator== returns, fatal whether it ends in
\* LOG(FATAL).
op_eq(a, b, be) ==
  IF ~is_valid(a) \/ ~is_valid(b)
    THEN [value |-> ~is_valid(a) /\ ~is_valid(b), fatal |-> FALSE]
  ELSE IF a.sa_family # b.sa_family THEN [value |-> FALSE, fatal |-> FALSE]
  ELSE IF a.sa_family = AF_INET THEN
    [value |-> load_u16(a.sin_port, be) = load_u16(b.sin_port, be)
               /\ memcmp(a.sin_addr, b.sin_addr) = 0,
     fatal |-> FALSE]
  ELSE IF a.sa_family = AF_INET6 THEN
    [value |-> load_u16(a.sin_port, be) = load_u16(b.sin_port, be)
               /\ memcmp(a.sin6_addr, b.sin6_addr) = 0,
     fatal |-> FALSE]
  ELSE [value |-> FALSE, fatal |-> TRUE]

\* Mutant of operator<: the ports are not compared.
op_lt_ignores_port(a, b, be) ==
  IF ~is_valid(a) \/ ~is_valid(b)
    THEN [value |-> ~is_valid(a) /\ is_valid(b), fatal |-> FALSE]
  ELSE IF a.sa_family # b.sa_family
    THEN [value |-> a.sa_family < b.sa_family, fatal |-> FALSE]
  ELSE IF a.sa_family = AF_INET
    THEN [value |-> memcmp(a.sin_addr, b.sin_addr) < 0, fatal |-> FALSE]
  ELSE IF a.sa_family = AF_INET6
    THEN [value |-> memcmp(a.sin6_addr, b.sin6_addr) < 0, fatal |-> FALSE]
  ELSE [value |-> FALSE, fatal |-> TRUE]

\* Lines 498-520.
op_lt(a, b, be) ==
  IF ~is_valid(a) \/ ~is_valid(b)
    THEN [value |-> ~is_valid(a) /\ is_valid(b), fatal |-> FALSE]
  ELSE IF a.sa_family # b.sa_family
    THEN [value |-> a.sa_family < b.sa_family, fatal |-> FALSE]
  ELSE IF a.sa_family = AF_INET THEN
    IF load_u16(a.sin_port, be) # load_u16(b.sin_port, be)
      THEN [value |-> load_u16(a.sin_port, be) < load_u16(b.sin_port, be),
            fatal |-> FALSE]
      ELSE [value |-> memcmp(a.sin_addr, b.sin_addr) < 0, fatal |-> FALSE]
  ELSE IF a.sa_family = AF_INET6 THEN
    IF load_u16(a.sin_port, be) # load_u16(b.sin_port, be)
      THEN [value |-> load_u16(a.sin_port, be) < load_u16(b.sin_port, be),
            fatal |-> FALSE]
      ELSE [value |-> memcmp(a.sin6_addr, b.sin6_addr) < 0, fatal |-> FALSE]
  ELSE [value |-> FALSE, fatal |-> TRUE]

(***************************************************************************)
(* init_host_port.                                                         *)
(***************************************************************************)
CH_COLON == 58

\* to_string(port): the decimal text of an int.
RECURSIVE to_string_digits(_)
to_string_digits(n) ==
  IF n < 10 THEN <<CH_0 + n>>
  ELSE Append(to_string_digits(n \div 10), CH_0 + (n % 10))

to_string(n) ==
  IF n < 0 THEN <<CH_MINUS>> \o to_string_digits(-n) ELSE to_string_digits(n)

\* Lines 328-344: the index in info of best_info, 0 for nullptr; the scan
\* starts at k with best_info = best.
RECURSIVE best_info_from(_, _, _, _)
best_info_from(info, k, best, prefer_ipv6) ==
  IF k > Len(info) THEN best
  ELSE
    LET fam == info[k].ai_family
        take4 == fam = AF_INET /\ (~prefer_ipv6 \/ best = 0)
        b1 == IF take4 THEN k ELSE best
        take6 == fam = AF_INET6 /\ (prefer_ipv6 \/ b1 = 0)
        b2 == IF take6 THEN k ELSE b1 IN
      IF take4 /\ ~prefer_ipv6 THEN b1
      ELSE IF take6 /\ prefer_ipv6 THEN b2
      ELSE best_info_from(info, k + 1, b2, prefer_ipv6)

\* Mutant of best_info: the scan does not stop at the first candidate of the
\* preferred family.
RECURSIVE best_info_no_break_from(_, _, _, _)
best_info_no_break_from(info, k, best, prefer_ipv6) ==
  IF k > Len(info) THEN best
  ELSE
    LET fam == info[k].ai_family
        b1 == IF fam = AF_INET /\ (~prefer_ipv6 \/ best = 0) THEN k ELSE best
        b2 == IF fam = AF_INET6 /\ (prefer_ipv6 \/ b1 = 0) THEN k ELSE b1 IN
      best_info_no_break_from(info, k + 1, b2, prefer_ipv6)

best_info_no_break(info, prefer_ipv6) ==
  best_info_no_break_from(info, 1, 0, prefer_ipv6)

best_info(info, prefer_ipv6) == best_info_from(info, 1, 0, prefer_ipv6)

\* Lines 298-316: whether getaddrinfo is reached, and with which arguments.
getaddrinfo_call(h, port) ==
  IF h = <<>> THEN [called |-> FALSE, status |-> "EmptyHost"]
  ELSE LET ascii_host == idn_to_ascii(h) IN
    IF ascii_host.status # "OK"
      THEN [called |-> FALSE, status |-> ascii_host.status]
      ELSE [called |-> TRUE, host |-> ascii_host.value, service |-> port]

HostPortResult(r, called, best) ==
  [addr |-> r.addr, status |-> r.status, abort |-> r.abort,
   called |-> called, best |-> best]

\* Lines 297-349; gai is what getaddrinfo returns when it is called.
init_host_port_str(a, h, port, prefer_ipv6, gai) ==
  LET c == getaddrinfo_call(h, port) IN
    IF ~c.called THEN HostPortResult(Result(a, c.status), FALSE, 0)
    ELSE IF gai.err # 0
      THEN HostPortResult(Result(a, "ResolutionFailed"), TRUE, 0)
    ELSE
      LET best == best_info(gai.info, prefer_ipv6) IN
        IF best = 0
          THEN HostPortResult(Result(a, "NoAddressFound"), TRUE, 0)
          ELSE HostPortResult(
                 init_sockaddr(a, gai.info[best].ai_addr,
                               gai.info[best].ai_addrlen), TRUE, best)

\* Lines 292-295.
init_host_port_int(a, h, port, prefer_ipv6, gai) ==
  init_host_port_str(a, h, to_string(port), prefer_ipv6, gai)

\* Lines 351-357: rfind(':') and the two substrings (prefer_ipv6 takes the
\* default of the declaration, false).
split_host_port(host_port) ==
  LET colons == {i \in 1..Len(host_port) : host_port[i] = CH_COLON} IN
    IF colons = {} THEN [found |-> FALSE]
    ELSE LET pos == CHOOSE i \in colons : \A j \in colons : j <= i IN
      [found |-> TRUE,
       host  |-> SubSeq(host_port, 1, pos - 1),
       port  |-> SubSeq(host_port, pos + 1, Len(host_port))]

init_host_port_combined(a, host_port, gai) ==
  LET sp == split_host_port(host_port) IN
    IF ~sp.found
      THEN HostPortResult(Result(a, "MalformedHostPort"), FALSE, 0)
      ELSE init_host_port_str(a, sp.host, sp.port, FALSE, gai)

(***************************************************************************)
(* The resolver, getaddrinfo: an ordered list of candidates, or an error.  *)
(* It is asked for stream sockets of any family; a numeric service gives   *)
(* the port of every candidate.                                            *)
(***************************************************************************)
IsDecimal(txt) ==
  Len(txt) > 0 /\ \A i \in 1..Len(txt) : txt[i] >= 48 /\ txt[i] <= 57

RECURSIVE DecimalValue(_)
DecimalValue(txt) ==
  IF txt = <<>> THEN 0
  ELSE 10 * DecimalValue(SubSeq(txt, 1, Len(txt) - 1)) + (txt[Len(txt)] - 48)

Sockaddr4(port_bytes, bytes) ==
  [sa_family |-> AF_INET, sin_port |-> port_bytes, sin_addr |-> bytes,
   sin6_addr |-> ZERO16]

Sockaddr6(port_bytes, bytes) ==
  [sa_family |-> AF_INET6, sin_port |-> port_bytes, sin_addr |-> ZERO4,
   sin6_addr |-> bytes]

SockaddrOther(port_bytes) ==
  [sa_family |-> AF_OTHER, sin_port |-> port_bytes, sin_addr |-> ZERO4,
   sin6_addr |-> ZERO16]

Candidates(port_bytes) ==
  { [ai_family |-> AF_INET, ai_addrlen |-> SIZEOF_SOCKADDR_IN,
     ai_addr |-> Sockaddr4(port_bytes, b)] : b \in {<<1, 2, 3, 4>>, <<1, 2, 3, 5>>} }
  \cup
  { [ai_family |-> AF_INET6, ai_addrlen |-> SIZEOF_SOCKADDR_IN6,
     ai_addr |-> Sockaddr6(port_bytes, b)] :
       b \in {inet_pton6("::1"), inet_pton6("::FFFF:1.2.3.4")} }
  \cup
  { [ai_family |-> AF_OTHER, ai_addrlen |-> SIZEOF_SOCKADDR_IN,
     ai_addr |-> SockaddrOther(port_bytes)] }

GAI_FAILED == [err |-> -2, info |-> <<>>]

GAI_NOT_CALLED == [err |-> 0, info |-> <<>>]

SERVICE_HTTP == <<104, 116, 116, 112>>  \* "http"

\* The port of a service: that of a decimal number, 80 for "http", and -1
\* for a service the resolver does not know.
service_port(service) ==
  IF IsDecimal(service) THEN DecimalValue(service)
  ELSE IF service = SERVICE_HTTP THEN 80
  ELSE -1

\* What getaddrinfo may return for a call c, with lists of at most maxlen
\* candidates.
getaddrinfo(c, maxlen) ==
  IF ~c.called THEN {GAI_NOT_CALLED}
  ELSE {GAI_FAILED} \cup
    IF service_port(c.service) >= 0
      THEN {[err |-> 0, info |-> l] :
              l \in UNION {[1..k -> Candidates(htons(service_port(c.service)))] :
                             k \in 0..maxlen}}
      ELSE {}

(***************************************************************************)
(* The hosts idn_to_ascii is run on.                                       *)
(***************************************************************************)
\* 'B', 'a', '.', and lead and continuation bytes of two- and three-byte
\* UTF-8 forms (U+00C2, U+00EC, U+00FC, U+20AC, ...).
HostBytes == {66, 97, 46, 195, 226, 130, 172, 188}

ShortHosts == UNION {[1..k -> HostBytes] : k \in 0..MaxHostLen}

BUECHER_DE == <<98, 195, 188, 99, 104, 101, 114, 46, 100, 101>>
BUECHER_DE_ASCII ==
  <<120, 110, 45, 45, 98, 99, 104, 101, 114, 45, 107, 118, 97, 46, 100, 101>>

\* "Bücher.DE", and a two-label Cyrillic host.
KnownHosts ==
  { BUECHER_DE,
    <<66, 195, 188, 99, 104, 101, 114, 46, 68, 69>>,
    <<208, 188, 208, 181, 208, 185, 208, 187, 46, 209, 128, 209, 132>> }

Pad(prefix, b, n) ==
  [i \in 1..n |-> IF i <= Len(prefix) THEN prefix[i] ELSE b]

LongHosts ==
  { Pad(pre, b, n) :
      pre \in {<<>>, <<195, 188>>, <<188>>},
      b \in {97, 66},
      n \in {MAX_DNS_NAME_LENGTH * 4, MAX_DNS_NAME_LENGTH * 4 + 1, 2000} }

Hosts == ShortHosts \cup KnownHosts \cup LongHosts

NoPuny ==
  [result |-> <<>>, codes |-> <<>>, processed |-> 0, n |-> 0, delta |-> 0,
   bias |-> 0, is_first |-> FALSE]

(***************************************************************************)
(* The IPAddress objects and the arguments of the calls on them.           *)
(***************************************************************************)
Slots == {1, 2}

\* What the bytes of a new object may hold before any initializer has run.
ZeroMem ==
  [is_valid_ |-> FALSE, sa_family |-> 0, sin_port |-> <<0, 0>>,
   sin_addr |-> ZERO4, sin6_addr |-> ZERO16]

FreshMem ==
  { ZeroMem,
    [is_valid_ |-> TRUE, sa_family |-> AF_INET6, sin_port |-> <<0, 1>>,
     sin_addr |-> <<1, 2, 3, 4>>, sin6_addr |-> inet_pton6("::1")] }

PortArgs == {0, 1, 256, 65536}

Ipv4Texts == {"1.2.3.4", "bad"}

Ipv6Texts == {"::1", "1.2.3.4"}

PortBytes == {<<0, 0>>, <<0, 1>>}

\* The records init_sockaddr is handed, each with the length stated for it.
Sockaddrs ==
  {Sockaddr4(pb, <<1, 2, 3, 5>>) : pb \in PortBytes}
  \cup {Sockaddr6(pb, inet_pton6("::1")) : pb \in PortBytes}
  \cup {SockaddrOther(<<0, 1>>)}

SockaddrLens == {SIZEOF_SOCKADDR_IN, SIZEOF_SOCKADDR_IN6, 8}

\* The records getsockname and getpeername write for a TCP socket.
SocketNames == {d \in Sockaddrs : d.sa_family \in {AF_INET, AF_INET6}}

CallHosts == {<<>>, <<195, 188>>}

CallPorts == {0, 256}

NoLast == [op |-> "none"]

\* The record of a call: d and len are the arguments of init_sockaddr.
Trace(traced, op, a, r, d, len) ==
  IF traced
    THEN [op |-> op, status |-> r.status, was_valid |-> is_valid(a),
          d |-> d, len |-> len]
    ELSE NoLast

AddrQuiet ==
  /\ addr = [i \in Slots |-> IPAddress_new(ZeroMem)]
  /\ aborted = FALSE
  /\ last = NoLast

(***************************************************************************)
(* idn_to_ascii, step by step.                                             *)
(***************************************************************************)
IdnInit ==
  /\ host = <<>>
  /\ ipc = "idle"
  /\ parts = <<>>
  /\ pidx = 0
  /\ result = <<>>
  /\ status = "none"
  /\ puny = NoPuny

IdnIdle == IdnInit /\ AddrQuiet

\* A caller invokes idn_to_ascii(h).
IdnCall ==
  /\ ipc = "idle"
  /\ host' \in Hosts
  /\ ipc' = "start"
  /\ UNCHANGED <<parts, pidx, result, status, puny>>
  /\ UNCHANGED addrVars

\* Lines 128-154.
IdnStart ==
  /\ ipc = "start"
  /\ LET c == idn_precheck(host) IN
       IF c = "ascii" THEN
         /\ ipc' = "done" /\ status' = "OK" /\ result' = to_lower(host)
         /\ UNCHANGED <<parts, pidx>>
       ELSE IF c = "encode" THEN
         /\ ipc' = "part" /\ parts' = full_split(host) /\ pidx' = 1
         /\ UNCHANGED <<status, result>>
       ELSE
         /\ ipc' = "done" /\ status' = c
         /\ UNCHANGED <<parts, pidx, result>>
  /\ UNCHANGED <<host, puny>>
  /\ UNCHANGED addrVars

\* Lines 155-161, 167: an ASCII part is copied.
IdnAsciiPart ==
  /\ ipc = "part"
  /\ pidx <= Len(parts)
  /\ LET b == idn_part_begin(result, parts, pidx) IN
       /\ b.ascii
       /\ result' = b.result
       /\ pidx' = pidx + 1
  /\ UNCHANGED <<host, ipc, parts, status, puny>>
  /\ UNCHANGED addrVars

\* Lines 164-165, 46-68: "xn--" is appended and punycode is entered.
PunycodeEnter ==
  /\ ipc = "part"
  /\ pidx <= Len(parts)
  /\ LET b == idn_part_begin(result, parts, pidx) IN
       /\ ~b.ascii
       /\ puny' = punycode_prologue(b.result, parts[pidx])
  /\ ipc' = "loop"
  /\ UNCHANGED <<host, parts, pidx, result, status>>
  /\ UNCHANGED addrVars

\* Lines 69-123: one iteration of punycode's while loop.
PunycodeIter ==
  /\ ipc = "loop"
  /\ puny.processed < Len(puny.codes)
  /\ puny' = punycode_iter(puny)
  /\ UNCHANGED <<host, ipc, parts, pidx, result, status>>
  /\ UNCHANGED addrVars

\* Lines 69, 124, 167: the loop exits and punycode returns.
PunycodeReturn ==
  /\ ipc = "loop"
  /\ ~(puny.processed < Len(puny.codes))
  /\ result' = puny.result
  /\ pidx' = pidx + 1
  /\ ipc' = "part"
  /\ UNCHANGED <<host, parts, status, puny>>
  /\ UNCHANGED addrVars

\* Line 169.
IdnReturn ==
  /\ ipc = "part"
  /\ pidx > Len(parts)
  /\ ipc' = "done"
  /\ status' = "OK"
  /\ UNCHANGED <<host, parts, pidx, result, puny>>
  /\ UNCHANGED addrVars

\* The steps of a running call.
IdnRun ==
  \/ IdnStart
  \/ IdnAsciiPart
  \/ PunycodeEnter
  \/ PunycodeIter
  \/ PunycodeReturn
  \/ IdnReturn

IdnNext == IdnCall \/ IdnRun

IdnSpec == IdnIdle /\ [][IdnNext]_vars

\* A call that has started runs to its return: every step of IdnRun is a
\* step of the one thread executing the call.
IdnLiveSpec == IdnSpec /\ WF_vars(IdnRun)

(***************************************************************************)
(* Calls on the IPAddress in slot i.  A call after the process has aborted *)
(* does not happen.  With traced, last records the call.                   *)
(***************************************************************************)
Do(i, r, l) ==
  /\ ~aborted
  /\ addr' = [addr EXCEPT ![i] = r.addr]
  /\ aborted' = r.abort
  /\ last' = l
  /\ UNCHANGED idnVars

InitIpv4Port(i, traced) ==
  \E ipv4 \in Ipv4Texts, port \in PortArgs :
    \E pton \in inet_pton(AF_INET, ipv4) :
      LET r == init_ipv4_port(addr[i], ipv4, port, pton) IN
        Do(i, r, Trace(traced, "init_ipv4_port", addr[i], r, ZeroMem, 0))

InitIpv6Port(i, traced) ==
  \E ipv6 \in Ipv6Texts, port \in PortArgs :
    \E pton \in inet_pton(AF_INET6, ipv6) :
      LET r == init_ipv6_port(addr[i], ipv6, port, pton) IN
        Do(i, r, Trace(traced, "init_ipv6_port", addr[i], r, ZeroMem, 0))

InitIpv6AsIpv4Port(i, traced) ==
  \E ipv4 \in Ipv4Texts, port \in PortArgs :
    \E pton \in inet_pton(AF_INET6, ipv6_as_ipv4_literal(ipv4)) :
      LET r == init_ipv6_as_ipv4_port(addr[i], ipv4, port, pton) IN
        Do(i, r, Trace(traced, "init_ipv6_as_ipv4_port", addr[i], r, ZeroMem, 0))

InitSockaddr(i, traced) ==
  \E d \in Sockaddrs, len \in SockaddrLens :
    LET r == init_sockaddr(addr[i], d, len) IN
      Do(i, r, Trace(traced, "init_sockaddr", addr[i], r, d, len))

InitSocketAddress(i, traced) ==
  \E ret \in {0, -1}, d \in SocketNames :
    LET r == init_socket_address(addr[i], ret, d) IN
      Do(i, r, Trace(traced, "init_socket_address", addr[i], r, ZeroMem, 0))

InitPeerAddress(i, traced) ==
  \E ret \in {0, -1}, d \in SocketNames :
    LET r == init_socket_address(addr[i], ret, d) IN
      Do(i, r, Trace(traced, "init_peer_address", addr[i], r, ZeroMem, 0))

SetPort(i, traced) ==
  \E port \in PortArgs :
    LET r == set_port(addr[i], port) IN
      Do(i, r, Trace(traced, "set_port", addr[i], r, ZeroMem, 0))

\* addr[i] = addr[i].get_any_addr().
GetAnyAddr(i, traced) ==
  \E mem \in FreshMem :
    LET r == get_any_addr(addr[i], mem) IN
      Do(i, r, Trace(traced, "get_any_addr", addr[i], r, ZeroMem, 0))

InitHostPort(i, traced) ==
  \E h \in CallHosts, port \in CallPorts, prefer_ipv6 \in BOOLEAN :
    \E gai \in getaddrinfo(getaddrinfo_call(h, to_string(port)), 1) :
      LET r == init_host_port_int(addr[i], h, port, prefer_ipv6, gai) IN
        Do(i, r, Trace(traced, "init_host_port", addr[i], r, ZeroMem, 0))

AddrOps(i, traced) ==
  \/ InitIpv4Port(i, traced)
  \/ InitIpv6Port(i, traced)
  \/ InitIpv6AsIpv4Port(i, traced)
  \/ InitSockaddr(i, traced)
  \/ InitSocketAddress(i, traced)
  \/ InitPeerAddress(i, traced)
  \/ SetPort(i, traced)
  \/ GetAnyAddr(i, traced)
  \/ InitHostPort(i, traced)

\* One object and the record of the last call on it.
OpInit ==
  /\ IdnInit
  /\ \E mem \in FreshMem :
       addr = [i \in Slots |-> IPAddress_new(IF i = 1 THEN mem ELSE ZeroMem)]
  /\ aborted = FALSE
  /\ last = NoLast

OpNext == AddrOps(1, TRUE)

OpSpec == OpInit /\ [][OpNext]_vars

\* Two objects, for the comparisons.
CmpInit ==
  /\ IdnInit
  /\ addr \in [Slots -> {IPAddress_new(mem) : mem \in FreshMem}]
  /\ aborted = FALSE
  /\ last = NoLast

CmpNext == \E i \in Slots : AddrOps(i, FALSE)

CmpSpec == CmpInit /\ [][CmpNext]_vars

(***************************************************************************)
(* One call of init_host_port, on a new object or on one that holds a      *)
(* valid address, with the arguments and the outcome recorded in last.     *)
(***************************************************************************)
MaxCands == 3

ResolveHosts ==
  {<<>>, <<97>>, <<195, 188>>, <<188>>,
   Pad(<<195, 188>>, 97, MAX_DNS_NAME_LENGTH * 4)}

ResolvePorts == {-1, 0, 80, 65536, 70000}

ResolveServices == {to_string(80), SERVICE_HTTP, <<>>}

\* "a:80", "a", ":80", "a:", "a:b:80".
ResolveHostPorts ==
  {<<97, 58, 56, 48>>, <<97>>, <<58, 56, 48>>, <<97, 58>>,
   <<97, 58, 98, 58, 56, 48>>}

ResolveInit ==
  /\ IdnInit
  /\ \E a \in {IPAddress_new(mem) : mem \in FreshMem}
             \cup {init_ipv4_port(IPAddress_new(ZeroMem), "1.2.3.4", 1,
                                  [err |-> 1, bytes |-> <<1, 2, 3, 4>>]).addr} :
       addr = [i \in Slots |-> IF i = 1 THEN a ELSE IPAddress_new(ZeroMem)]
  /\ aborted = FALSE
  /\ last = NoLast

ResolveTrace(op, h, port, prefer_ipv6, gai, r) ==
  [op |-> op, status |-> r.status, host |-> h, port |-> port,
   prefer_ipv6 |-> prefer_ipv6, gai |-> gai, called |-> r.called,
   best |-> r.best, before |-> addr[1]]

ResolveInt ==
  /\ last.op = "none"
  /\ \E h \in ResolveHosts, port \in ResolvePorts, prefer_ipv6 \in BOOLEAN :
       \E gai \in getaddrinfo(getaddrinfo_call(h, to_string(port)), MaxCands) :
         LET r == init_host_port_int(addr[1], h, port, prefer_ipv6, gai) IN
           Do(1, r, ResolveTrace("init_host_port_int", h, port, prefer_ipv6,
                                 gai, r))

ResolveStr ==
  /\ last.op = "none"
  /\ \E h \in ResolveHosts, port \in ResolveServices, prefer_ipv6 \in BOOLEAN :
       \E gai \in getaddrinfo(getaddrinfo_call(h, port), MaxCands) :
         LET r == init_host_port_str(addr[1], h, port, prefer_ipv6, gai) IN
           Do(1, r, ResolveTrace("init_host_port_str", h, port, prefer_ipv6,
                                 gai, r))

ResolveCombined ==
  /\ last.op = "none"
  /\ \E host_port \in ResolveHostPorts :
       LET sp == split_host_port(host_port)
           c == IF sp.found THEN getaddrinfo_call(sp.host, sp.port)
                            ELSE [called |-> FALSE] IN
         \E gai \in getaddrinfo(c, MaxCands) :
           LET r == init_host_port_combined(addr[1], host_port, gai) IN
             Do(1, r, ResolveTrace("init_host_port_combined", host_port, <<>>,
                                   FALSE, gai, r))

ResolveNext == ResolveInt \/ ResolveStr \/ ResolveCombined

ResolveSpec == ResolveInit /\ [][ResolveNext]_vars

(***************************************************************************)
(* The Punycode encoder of RFC 3492, section 6.3, over a sequence of code  *)
(* points: the reference the label encoder is compared with.               *)
(***************************************************************************)
Rfc == [base |-> 36, tmin |-> 1, tmax |-> 26, skew |-> 38, damp |-> 700,
        initial_bias |-> 72, initial_n |-> 128]

RfcDigit(d) == IF d <= 25 THEN 97 + d ELSE 48 + (d - 26)

RECURSIVE RfcAdaptLoop(_, _)
RfcAdaptLoop(delta, k) ==
  IF delta > ((Rfc.base - Rfc.tmin) * Rfc.tmax) \div 2
    THEN RfcAdaptLoop(delta \div (Rfc.base - Rfc.tmin), k + Rfc.base)
    ELSE k + (((Rfc.base - Rfc.tmin + 1) * delta) \div (delta + Rfc.skew))

RfcAdapt(delta, numpoints, firsttime) ==
  LET d == IF firsttime THEN delta \div Rfc.damp ELSE delta \div 2 IN
    RfcAdaptLoop(d + (d \div numpoints), 0)

RfcThreshold(k, bias) ==
  IF k <= bias THEN Rfc.tmin
  ELSE IF k >= bias + Rfc.tmax THEN Rfc.tmax ELSE k - bias

RECURSIVE RfcVarInt(_, _, _)
RfcVarInt(q, k, bias) ==
  LET t == RfcThreshold(k, bias) IN
    IF q < t THEN <<RfcDigit(q)>>
    ELSE <<RfcDigit(t + ((q - t) % (Rfc.base - t)))>>
         \o RfcVarInt((q - t) \div (Rfc.base - t), k + Rfc.base, bias)

RECURSIVE RfcScan(_, _, _, _)
RfcScan(input, i, n, s) ==
  IF i > Len(input) THEN s
  ELSE LET c == input[i] IN
    IF c < n THEN RfcScan(input, i + 1, n, [s EXCEPT !.delta = s.delta + 1])
    ELSE IF c = n THEN
      RfcScan(input, i + 1, n,
        [out   |-> s.out \o RfcVarInt(s.delta, Rfc.base, s.bias),
         bias  |-> RfcAdapt(s.delta, s.h + 1, s.h = s.b),
         delta |-> 0,
         h     |-> s.h + 1,
         b     |-> s.b])
    ELSE RfcScan(input, i + 1, n, s)

RECURSIVE RfcMain(_, _, _)
RfcMain(input, n, s) ==
  IF s.h >= Len(input) THEN s.out
  ELSE
    LET above == {input[i] : i \in 1..Len(input)} \cap n..1114111
        m == CHOOSE c \in above : \A d \in above : c <= d
        s1 == RfcScan(input, 1, m,
                [s EXCEPT !.delta = s.delta + (m - n) * (s.h + 1)]) IN
      RfcMain(input, m + 1, [s1 EXCEPT !.delta = s1.delta + 1])

RfcEncode(input) ==
  LET basic == SelectSeq(input, LAMBDA c : c < 128)
      b == Len(basic) IN
    RfcMain(input, Rfc.initial_n,
      [out   |-> IF b > 0 THEN Append(basic, 45) ELSE basic,
       bias  |-> Rfc.initial_bias, delta |-> 0, h |-> b, b |-> b])

\* The label with its ASCII capital letters replaced by small ones.
LowerBasic(input) ==
  [i \in 1..Len(input) |->
     IF input[i] >= 65 /\ input[i] <= 90 THEN input[i] + 32 ELSE input[i]]

\* The text punycode has appended after the "xn--" marker of the current part.
Appended ==
  SubSeq(puny.result,
         Len(idn_part_begin(result, parts, pidx).result) + 1,
         Len(puny.result))

LoopExited == ipc = "loop" /\ ~(puny.processed < Len(puny.codes))

HasCapital(cs) == \E i \in 1..Len(cs) : cs[i] >= 65 /\ cs[i] <= 90

NonBasic(cs) == {i \in 1..Len(cs) : cs[i] > 127}

HasNonAscii(h) == \E i \in 1..Len(h) : h[i] > 127

\* C3 as stated: idn_to_ascii fails with HostnameTooLong for every host of at
\* least 1020 bytes, whatever its characters are.
C3_TooLongWhateverChars ==
  (ipc = "done" /\ Len(host) >= 1020) => status = "HostnameTooLong"

\* C3 amended: a host of at least 1020 bytes that has a non-ASCII byte and is
\* valid UTF-8 is refused with HostnameTooLong before any part is encoded; an
\* all-ASCII host of that length is returned lowercased, and one that is not
\* valid UTF-8 fails with InvalidEncoding.
C3_TooLongNonAsciiUtf8 ==
  (ipc \notin {"idle", "start"} /\ Len(host) >= 1020) =>
     /\ ipc = "done"
     /\ (HasNonAscii(host) /\ check_utf8(host)) => status = "HostnameTooLong"
     /\ ~HasNonAscii(host) =>
          (status = "OK" /\ Len(result) = Len(host)
           /\ \A i \in 1..Len(host) : result[i] = to_lower_char(host[i]))
     /\ (HasNonAscii(host) /\ ~check_utf8(host)) => status = "InvalidEncoding"

C3_Witness ==
  ipc = "done" /\ Len(host) = 2000 /\ HasNonAscii(host)
  /\ status = "HostnameTooLong"

\* C4 as stated: for every label with a non-ASCII code point, the text
\* appended after "xn--" is the RFC 3492 encoding of the label.
C4_CanonicalAnyLabel ==
  LoopExited => Appended = RfcEncode(puny.codes)

\* C4 amended: the text appended after "xn--" is the RFC 3492 encoding of the
\* label with its ASCII capital letters lowercased (so it is the encoding of
\* the label itself when the label has no ASCII capital letter), and
\* idn_to_ascii("bücher.de") is "xn--bcher-kva.de".
C4_CanonicalOfLowercased ==
  /\ LoopExited => Appended = RfcEncode(LowerBasic(puny.codes))
  /\ (ipc = "done" /\ host = BUECHER_DE) =>
       (status = "OK" /\ result = BUECHER_DE_ASCII)

C4_Witness ==
  /\ LoopExited
  /\ HasCapital(puny.codes)
  /\ NonBasic(puny.codes) # {}
  /\ Appended = RfcEncode(LowerBasic(puny.codes))
  /\ Appended # RfcEncode(puny.codes)

\* The codes punycode has not processed yet: those above the threshold n.
Unprocessed == {i \in 1..Len(puny.codes) : puny.codes[i] > puny.n}

\* C9, one iteration: next_n is the value of a code point not yet processed,
\* processed grows by at least one and stays within the number of code
\* points; and the loop is left only with processed equal to that number.
C9_IterStep ==
  /\ (ipc = "loop" /\ puny.processed < Len(puny.codes)) =>
       /\ \E i \in Unprocessed :
            puny.codes[i] = choose_next_n(puny.codes, 1, puny.n, UNICODE_LIMIT)
       /\ puny'.n = choose_next_n(puny.codes, 1, puny.n, UNICODE_LIMIT)
       /\ puny'.processed > puny.processed
       /\ puny'.processed <= Len(puny.codes)
       /\ ipc' = "loop"
  /\ (ipc = "loop" /\ ipc' # "loop") => puny.processed = Len(puny.codes)
  /\ (ipc = "loop" /\ puny.processed = Len(puny.codes)) => ipc' = "part"

\* C9: for every label of valid code points the main loop of the encoder
\* terminates: each iteration is a C9_IterStep, processed counts exactly the
\* code points up to the threshold and never exceeds the total, and the loop
\* is eventually left.
C9_LoopTerminates ==
  /\ [][C9_IterStep]_vars
  /\ [](ipc = "loop" =>
          /\ puny.processed <= Len(puny.codes)
          /\ puny.processed + Cardinality(Unprocessed) = Len(puny.codes)
          /\ \A i \in 1..Len(puny.codes) : puny.codes[i] < UNICODE_LIMIT)
  /\ [](ipc = "loop" => <>(ipc = "part"))

C9_Witness ==
  /\ LoopExited
  /\ puny.processed = Len(puny.codes)
  /\ Cardinality({puny.codes[i] : i \in NonBasic(puny.codes)}) >= 2

(***************************************************************************)
(* init_host_port: the candidate chosen.                                   *)
(***************************************************************************)
IsResolve ==
  last.op \in {"init_host_port_int", "init_host_port_str",
               "init_host_port_combined"}

\* getaddrinfo was called and returned a list.
Listed == IsResolve /\ last.called /\ last.gai.err = 0

FirstOfFamily(info, fam) ==
  LET ks == {k \in 1..Len(info) : info[k].ai_family = fam} IN
    IF ks = {} THEN 0 ELSE CHOOSE k \in ks : \A j \in ks : k <= j

Preferred(info, prefer_v6) ==
  LET v4 == FirstOfFamily(info, 2)
      v6 == FirstOfFamily(info, 10) IN
    IF prefer_v6 THEN (IF v6 # 0 THEN v6 ELSE v4)
                 ELSE (IF v4 # 0 THEN v4 ELSE v6)

HoldsCandidate(a, cand) ==
  /\ a.is_valid_
  /\ a.sa_family = cand.ai_family
  /\ a.sin_port = cand.ai_addr.sin_port
  /\ IF cand.ai_family = 2 THEN a.sin_addr = cand.ai_addr.sin_addr
                           ELSE a.sin6_addr = cand.ai_addr.sin6_addr

\* C1: over the list the resolver returns, with prefer_v6 false the first
\* IPv4 candidate is selected if there is one and otherwise the first IPv6
\* candidate, with prefer_v6 true the first IPv6 candidate if there is one and
\* otherwise the first IPv4 candidate; the call fails with NoAddressFound
\* exactly when the list has no IPv4 and no IPv6 candidate.
C1_SelectsPreferredFamily ==
  /\ Listed =>
       LET e == Preferred(last.gai.info, last.prefer_ipv6) IN
         /\ (e = 0) <=> (last.status = "NoAddressFound")
         /\ (e # 0) =>
              /\ last.status = "OK"
              /\ last.best = e
              /\ HoldsCandidate(addr[1], last.gai.info[e])
  /\ (IsResolve /\ last.status = "NoAddressFound") => Listed

C1_Witness ==
  /\ Listed
  /\ ~last.prefer_ipv6
  /\ Len(last.gai.info) = 3
  /\ last.gai.info[1].ai_family = 10
  /\ last.gai.info[2].ai_family = 2
  /\ last.gai.info[3].ai_family = 2
  /\ last.gai.info[2] # last.gai.info[3]
  /\ last.best = 2
  /\ HoldsCandidate(addr[1], last.gai.info[2])

\* C2: the numeric-port variant refuses a port outside [1, 65535] with
\* InvalidPort for every non-empty host, and the resolver is not invoked.
C2_NumericPortValidated ==
  (/\ last.op = "init_host_port_int"
   /\ last.host # <<>>
   /\ (last.port < 1 \/ last.port > 65535))
  => (last.status = "InvalidPort" /\ ~last.called)

(***************************************************************************)
(* The IPAddress operations.                                               *)
(***************************************************************************)
RawBytes(a) == IF a.sa_family = 2 THEN a.sin_addr ELSE a.sin6_addr

IsWildcard(a) == \A k \in 1..Len(RawBytes(a)) : RawBytes(a)[k] = 0

\* C7: a valid address has a port in [0, 65535], and port 0 only if
\* it is a wildcard address.
C7_PortZeroOnlyWildcard ==
  \A i \in Slots :
    is_valid(addr[i]) =>
      /\ get_port(addr[i]) \in 0..65535
      /\ get_port(addr[i]) = 0 => IsWildcard(addr[i])

RecordSize(fam) == IF fam = 2 THEN 16 ELSE 28

\* C8 as stated: init_sockaddr returns UnknownFamily, without aborting,
\* whenever the family is neither IPv4 nor IPv6 or the length is not the size
\* of the family's record, and copies the record and succeeds only when both
\* checks pass.
C8_MismatchIsTypedFailure ==
  last.op = "init_sockaddr" =>
    LET known == last.d.sa_family \in {2, 10}
        fits == last.len = RecordSize(last.d.sa_family) IN
      /\ ~(known /\ fits) => (last.status = "UnknownFamily" /\ ~aborted)
      /\ (known /\ fits) => (last.status = "OK" /\ ~aborted)

\* C8 amended: init_sockaddr returns UnknownFamily, without aborting and
\* without touching the object, when the family is neither IPv4 nor IPv6; for
\* an IPv4 or IPv6 record whose length is not the size of the family's record
\* the process aborts (CHECK); it copies the record and succeeds exactly when
\* both checks pass.
C8_UnknownFamilyTypedLengthFatal ==
  last.op = "init_sockaddr" =>
    LET known == last.d.sa_family \in {2, 10}
        fits == last.len = RecordSize(last.d.sa_family) IN
      /\ ~known => (/\ last.status = "UnknownFamily"
                    /\ ~aborted
                    /\ is_valid(addr[1]) = last.was_valid)
      /\ (known /\ ~fits) => (aborted /\ last.status # "OK")
      /\ (known /\ fits) =>
           /\ last.status = "OK"
           /\ ~aborted
           /\ is_valid(addr[1])
           /\ addr[1].sa_family = last.d.sa_family
           /\ addr[1].sin_port = last.d.sin_port
           /\ RawBytes(addr[1]) = RawBytes(last.d)
      /\ last.status = "OK" => (known /\ fits)

C8_Witness ==
  /\ last.op = "init_sockaddr"
  /\ last.d.sa_family = 2
  /\ last.len = 28
  /\ aborted

LiteralOps == {"init_ipv4_port", "init_ipv6_port", "init_ipv6_as_ipv4_port"}

\* C10: after a literal initializer the address is valid exactly when the
\* initializer returned success; after an error (a port outside [1, 65535] or
\* a literal the parser rejects) it is invalid, even if it was valid before.
C10_ValidIffSuccess ==
  last.op \in LiteralOps =>
    /\ is_valid(addr[1]) <=> (last.status = "OK")
    /\ last.status \in {"OK", "InvalidPort", "InvalidLiteral", "SystemError"}

C10_Witness ==
  /\ last.op \in LiteralOps
  /\ last.was_valid
  /\ last.status = "InvalidLiteral"
  /\ ~is_valid(addr[1])

(***************************************************************************)
(* operator== and operator<.                                               *)
(***************************************************************************)
\* Every value an IPAddress can hold over the bytes the calls above write.
AddrValues ==
  { a \in [is_valid_ : BOOLEAN,
           sa_family : {0, 2, 10},
           sin_port  : {<<x, y>> : x \in {0, 1}, y \in {0, 1}},
           sin_addr  : {ZERO4, <<1, 2, 3, 4>>, <<1, 2, 3, 5>>},
           sin6_addr : {ZERO16, inet_pton6("::1"),
                        inet_pton6("::FFFF:1.2.3.4")}] :
      a.is_valid_ => a.sa_family \in {2, 10} }

\* C5: operator< is a strict total order consistent with operator==, in
\* either byte order: irreflexive, asymmetric, exactly one of a < b, b < a,
\* a == b, and transitive (the third address ranging over every value an
\* IPAddress can hold).
C5_StrictTotalOrder ==
  \A be \in BOOLEAN :
    LET a == addr[1]
        b == addr[2]
        lt(x, y) == op_lt(x, y, be).value
        eq(x, y) == op_eq(x, y, be).value IN
      /\ a \in AddrValues /\ b \in AddrValues
      /\ ~op_lt(a, b, be).fatal /\ ~op_eq(a, b, be).fatal
      /\ ~lt(a, a) /\ ~lt(b, b)
      /\ ~(lt(a, b) /\ lt(b, a))
      /\ Cardinality({k \in 1..3 : <<lt(a, b), lt(b, a), eq(a, b)>>[k]}) = 1
      /\ \A c \in AddrValues :
           /\ (lt(a, b) /\ lt(b, c)) => lt(a, c)
           /\ (lt(a, c) /\ lt(c, b)) => lt(a, b)
           /\ (lt(c, a) /\ lt(a, b)) => lt(c, b)

C5_Witness ==
  /\ is_valid(addr[1]) /\ is_valid(addr[2])
  /\ addr[1].sa_family = 2 /\ addr[2].sa_family = 2
  /\ get_port(addr[1]) = 1 /\ get_port(addr[2]) = 256
  /\ op_lt(addr[1], addr[2], TRUE).value
  /\ op_lt(addr[2], addr[1], FALSE).value

\* C6: a == b holds if both are invalid, does not hold if exactly one is
\* invalid or the families differ, and for two valid addresses of one family
\* holds exactly when the ports and the raw address bytes are identical.
C6_Equality ==
  \A be \in BOOLEAN :
    LET a == addr[1]
        b == addr[2]
        e == op_eq(a, b, be) IN
      /\ ~e.fatal
      /\ (~is_valid(a) /\ ~is_valid(b)) => e.value
      /\ (is_valid(a) # is_valid(b)) => ~e.value
      /\ (is_valid(a) /\ is_valid(b) /\ a.sa_family # b.sa_family) => ~e.value
      /\ (is_valid(a) /\ is_valid(b) /\ a.sa_family = b.sa_family) =>
           (e.value <=> (get_port(a) = get_port(b) /\ RawBytes(a) = RawBytes(b)))

\* An address left invalid by a failed initializer that wrote the family, the
\* port and the address bytes another, valid, address holds.
C6_Witness ==
  /\ ~is_valid(addr[1]) /\ is_valid(addr[2])
  /\ addr[1].sa_family = 2 /\ addr[2].sa_family = 2
  /\ addr[1].sin_port = addr[2].sin_port
  /\ get_port(addr[2]) = 1
  /\ addr[1].sin_addr = addr[2].sin_addr

====
